---- MODULE Spec2Model ----
(***************************************************************************)
(* Model of alpha_commit.py: the submission protocol of                    *)
(* BrainAPIClient.submit_alpha, the persisted queue file rewritten by      *)
(* _remove_alpha_id_from_file, and the batch driver submit_alpha_ids.      *)
(*                                                                         *)
(* The program is single-threaded.  The driver is cut into steps at the    *)
(* places where it blocks or touches the file, so that a KeyboardInterrupt *)
(* or a kill of the process can fall between any two of them.  Storage is  *)
(* taken to be reliable and exclusive to the driver (no concurrent writer),*)
(* the transport may answer with any status, header and body, or raise.    *)
(***************************************************************************)
EXTENDS Integers, Sequences, FiniteSets, TLC

\* ---------------------------------------------------------------- bounds
MaxLines == 3        \* lines of the queue file at the start
MaxPolls == 2        \* poll answers with a nonzero interval in one call
MaxRuns == 2         \* driver runs on the same queue file
MaxTarget == 3       \* largest num_to_submit typed in
MaxRows == 2         \* rows of the candidate input

\* ------------------------------------------------------ program constants
MaxAttempts == 5     \* range(5)
SubmitBackoff == 3   \* sleep(3)
BatchPause == 10     \* sleep(10)

\* ------------------------------------------------------------ the inputs
\* A line of the queue file is a sequence of tokens: an identifier, a blank
\* " " or the newline.  The file holds identifier lines, an identifier with
\* blanks around it, and blank lines.
Ids == {"A", "B", "C"}
Whitespace == {" ", "\n"}
RawLines == {<<a, "\n">> : a \in Ids} \cup {<<" ", "A", " ", "\n">>, <<"\n">>}
Targets == 0..MaxTarget

PostStatuses == {201, 400, 403, 200, 500}
GetStatuses == {200, 404}
NoHeader == "absent"
HttpDate == "Wed, 21 Oct 2026 07:28:00 GMT"
RetryHeaders == {NoHeader, "0", "0.0", "2", "7", HttpDate}
Bodies == {"checks", "html"}

\* The candidate input: rows whose first field is the identifier and of
\* which one field may hold the check-report; the report is marked by the
\* text 'checks': and parses as a literal or not.
FirstFields == {<<"A">>, <<" ", "B", " ">>}
GateOrder == <<"LOW_SHARPE", "LOW_FITNESS", "LOW_TURNOVER", "HIGH_TURNOVER",
               "CONCENTRATED_WEIGHT", "LOW_SUB_UNIVERSE_SHARPE">>
Gates == {GateOrder[i] : i \in DOMAIN GateOrder}
Item(n, r) == [name |-> n, result |-> r]
AllPass == [i \in DOMAIN GateOrder |-> Item(GateOrder[i], "PASS")]
WithResult(g, v) ==
    [i \in DOMAIN GateOrder |->
        Item(GateOrder[i], IF GateOrder[i] = g THEN v ELSE "PASS")]
Without(g) == SelectSeq(AllPass, LAMBDA it : it.name # g)
Reports ==
    {AllPass, <<>>}
    \cup {WithResult(g, v) : g \in Gates, v \in {"FAIL", "WARNING"}}
    \cup {Without(g) : g \in Gates}
    \cup {Append(AllPass, Item("UNITS", v)) : v \in {"FAIL", "WARNING"}}
Row(first, marker, literal, checks) ==
    [first |-> first, marker |-> marker, literal |-> literal, checks |-> checks]
Rows ==
    {Row(f, TRUE, TRUE, c) : f \in FirstFields, c \in Reports}
    \cup {Row(f, FALSE, FALSE, <<>>) : f \in FirstFields}
    \cup {Row(f, TRUE, FALSE, <<>>) : f \in FirstFields}
Input(exists, readable, rows) ==
    [exists |-> exists, readable |-> readable, rows |-> rows]
NoInput == Input(FALSE, FALSE, <<>>)
Unreadable == Input(TRUE, FALSE, <<>>)
NotFiltered == [ran |-> FALSE, wrote |-> FALSE, ids |-> <<>>]

\* -------------------------------------------------------- pure functions
\* str.strip() on a line of the queue file: the identifier, or "" for a line
\* of whitespace.
Strip(line) ==
    LET core == SelectSeq(line, LAMBDA c : c \notin Whitespace)
    IN  IF core = <<>> THEN "" ELSE core[1]

RECURSIVE ReadIds(_)
\* [line.strip() for line in f.readlines() if line.strip()]
ReadIds(lines) ==
    IF lines = <<>> THEN <<>>
    ELSE IF Strip(Head(lines)) = "" THEN ReadIds(Tail(lines))
         ELSE <<Strip(Head(lines))>> \o ReadIds(Tail(lines))

Range(s) == {s[i] : i \in 1..Len(s)}

\* alpha_id in alpha_ids
Contains(ids, x) == x \in Range(ids)

\* A variant of list.remove that drops the last element instead.
RemoveLast(ids, x) ==
    IF ids = <<>> THEN ids ELSE SubSeq(ids, 1, Len(ids) - 1)

\* A variant of list.remove that drops every occurrence.
RemoveAll(ids, x) == SelectSeq(ids, LAMBDA y : y # x)

\* alpha_ids.remove(alpha_id): drops the first occurrence.
RemoveFirst(ids, x) ==
    IF ~Contains(ids, x) THEN ids
    ELSE LET k == CHOOSE i \in 1..Len(ids) :
                      ids[i] = x /\ \A j \in 1..(i - 1) : ids[j] # x
         IN  SubSeq(ids, 1, k - 1) \o SubSeq(ids, k + 1, Len(ids))

\* A variant of the formatting that leaves the last identifier out.
FormatLinesShort(ids) ==
    [i \in 1..(IF ids = <<>> THEN 0 ELSE Len(ids) - 1) |-> <<ids[i], "\n">>]

\* [f"{aid}\n" for aid in alpha_ids]: one line per identifier.
FormatLines(ids) == [i \in 1..Len(ids) |-> <<ids[i], "\n">>]

\* float(res.headers.get('Retry-After', 0)): the numerals parse, an
\* HTTP-date raises ValueError.
IsFloat(h) == h # HttpDate
ParseFloat(h) ==
    CASE h = NoHeader -> 0
      [] h = "0" -> 0
      [] h = "0.0" -> 0
      [] h = "2" -> 2
      [] h = "7" -> 7

\* A variant of the required set that leaves LOW_TURNOVER out.
RequiredChecksFive ==
    {"LOW_SHARPE", "LOW_FITNESS", "HIGH_TURNOVER", "CONCENTRATED_WEIGHT",
     "LOW_SUB_UNIVERSE_SHARPE"}

\* Lines 169-176: required_checks.
RequiredChecks ==
    {"LOW_SHARPE", "LOW_FITNESS", "LOW_TURNOVER", "HIGH_TURNOVER",
     "CONCENTRATED_WEIGHT", "LOW_SUB_UNIVERSE_SHARPE"}

\* Line 206 and check_results.get(name): the dict built from the list of
\* checks, a later item replacing an earlier one of the same name; "None"
\* for a name that is not in it.
Lookup(checks, n) ==
    LET at == {i \in 1..Len(checks) : checks[i].name = n}
    IN  IF at = {} THEN "None"
        ELSE checks[CHOOSE i \in at : \A j \in at : j <= i].result

\* Lines 209-215: every required check has the result PASS.
IsQualified(checks) == \A g \in RequiredChecks : Lookup(checks, g) = "PASS"

RECURSIVE ValidIds(_)
\* Lines 185-222: the identifiers of the rows that qualify, in the order of
\* the rows; a row without a report and a row whose report does not parse
\* are passed over.
ValidIds(rows) ==
    IF rows = <<>> THEN <<>>
    ELSE LET row == Head(rows)
             keep == row.marker /\ row.literal /\ IsQualified(row.checks)
         IN  (IF keep THEN <<Strip(row.first)>> ELSE <<>>)
                 \o ValidIds(Tail(rows))

IsDistinct(s) == \A i, j \in 1..Len(s) : s[i] = s[j] => i = j

RECURSIVE SeqsUpTo(_, _)
SeqsUpTo(S, n) ==
    IF n = 0 THEN {<<>>}
    ELSE LET shorter == SeqsUpTo(S, n - 1)
         IN  shorter \cup {Append(s, x) : s \in shorter, x \in S}


\* ------------------------------------------------------------- the state
VARIABLES
    fileExists,     \* os.path.exists(alpha_id_path)
    fileLines,      \* the lines of the queue file
    pc,             \* the driver's position
    run,            \* number of the driver run on this file
    requested,      \* num_to_submit as passed by the caller
    num_to_submit,  \* num_to_submit after line 283-284
    alpha_ids,      \* the identifiers loaded at line 274
    idx,            \* index of the identifier in hand (0-based)
    successful, failed,
    alpha_id,       \* the identifier submit_alpha works on
    attempt,        \* loop variable of range(5)
    retry,          \* the parsed Retry-After of the last poll
    toWrite,        \* the list _remove_alpha_id_from_file is writing
    res,            \* the last request of the call and its response
    ret,            \* what submit_alpha returned: "none", "True", "False"
    retLine,        \* the source line of the return taken
    nPost, nGet,    \* requests of the call in hand
    nBackoff,       \* sleep(3) of the call in hand
    nRetryWait,     \* sleep(retry) of the call in hand
    lastSleep,      \* length of the last sleep
    accepted,       \* a POST of the call in hand got 201
    posted,         \* identifiers POSTed in this run
    resolved,       \* identifiers submit_alpha returned for in this run
    removed,        \* identifiers whose removal was written in this run
    prevResolved,   \* the same two for the earlier runs on this file
    prevRemoved,
    prevDistinct,   \* the earlier runs loaded distinct identifiers
    report,         \* what the run reported last
    rmTrace,        \* the file before and after successive removals
    candidates,     \* the candidate input of the filter
    filtered        \* what the filter step of this start of main did

fileVars == <<fileExists, fileLines>>
driverVars == <<requested, num_to_submit, alpha_ids, idx, successful, failed>>
callVars == <<alpha_id, attempt, retry, res, ret, retLine, nPost, nGet,
              nBackoff, nRetryWait, lastSleep, accepted>>
historyVars == <<posted, resolved, removed, prevResolved, prevRemoved,
                 prevDistinct, rmTrace, candidates, filtered>>
vars == <<fileVars, pc, run, driverVars, callVars, toWrite, historyVars,
          report>>

NoReport == [kind |-> "none", s |-> 0, f |-> 0, r |-> 0, target |-> 0]
\* A request and its response: status 0 stands for a transport that raised,
\* body is "unread" unless res.json() was called.
Response(req, status, header, body) ==
    [req |-> req, status |-> status, retryAfter |-> header, body |-> body]
NoResponse == Response("none", 0, NoHeader, "unread")

\* The positions inside the try of lines 290-309.
LoopPcs == {"loop", "post", "backoff", "get", "retrywait", "record",
            "rm_open", "rm_write", "advance", "pause"}
\* The positions where the run is over.
EndPcs == {"done", "interrupted", "killed", "raised"}

FreshLocals ==
    /\ num_to_submit = requested
    /\ alpha_ids = <<>> /\ idx = 0 /\ successful = <<>> /\ failed = <<>>
    /\ alpha_id = "" /\ attempt = 0 /\ retry = 0 /\ toWrite = <<>>
    /\ res = NoResponse /\ ret = "none" /\ retLine = 0
    /\ nPost = 0 /\ nGet = 0 /\ nBackoff = 0 /\ nRetryWait = 0
    /\ lastSleep = 0 /\ accepted = FALSE
    /\ posted = {} /\ resolved = {} /\ removed = {}
    /\ report = NoReport

\* The same locals at the start of a later run.
ResetLocals ==
    /\ num_to_submit' = requested'
    /\ alpha_ids' = <<>> /\ idx' = 0 /\ successful' = <<>> /\ failed' = <<>>
    /\ alpha_id' = "" /\ attempt' = 0 /\ retry' = 0 /\ toWrite' = <<>>
    /\ res' = NoResponse /\ ret' = "none" /\ retLine' = 0
    /\ nPost' = 0 /\ nGet' = 0 /\ nBackoff' = 0 /\ nRetryWait' = 0
    /\ lastSleep' = 0 /\ accepted' = FALSE
    /\ posted' = {} /\ resolved' = {} /\ removed' = {}
    /\ report' = NoReport

\* Identifiers are opaque: of the files that differ only in the names of
\* their identifiers, the one that names them A, B, C in the order of their
\* first occurrence stands for all.
FirstAt(ids, x) == CHOOSE i \in 1..Len(ids) : ids[i] = x /\ \A j \in 1..(i - 1) : ids[j] # x
NamedInOrder(ids) ==
    /\ Contains(ids, "B") => Contains(ids, "A") /\ FirstAt(ids, "A") < FirstAt(ids, "B")
    /\ Contains(ids, "C") => Contains(ids, "B") /\ FirstAt(ids, "B") < FirstAt(ids, "C")
QueueFiles == {f \in SeqsUpTo(RawLines, MaxLines) : NamedInOrder(ReadIds(f))}

Init ==
    /\ \/ fileExists = FALSE /\ fileLines = <<>>
       \/ fileExists = TRUE /\ fileLines \in QueueFiles
    /\ pc = "start" /\ run = 1
    /\ requested \in Targets
    /\ FreshLocals
    /\ prevResolved = {} /\ prevRemoved = {} /\ prevDistinct = TRUE
    /\ rmTrace = <<>> /\ candidates = NoInput /\ filtered = NotFiltered

\* The frame of submit_alpha is gone: its locals and the tallies of its
\* requests and waits are as before a call.
CallOver ==
    /\ attempt' = 0 /\ retry' = 0 /\ res' = NoResponse
    /\ ret' = "none" /\ retLine' = 0
    /\ nPost' = 0 /\ nGet' = 0 /\ nBackoff' = 0 /\ nRetryWait' = 0
    /\ lastSleep' = 0 /\ accepted' = FALSE

\* while len(successful) < num_to_submit and idx < len(alpha_ids)
MoreToDo(succ, target, i, ids) == Len(succ) < target /\ i < Len(ids)

\* A variant of the pause test that pauses after every identifier.
PauseAlways(succ, target, i, ids) == TRUE

\* Line 308: a pause follows when the loop will go round again.
PauseNeeded(succ, target, i, ids) == MoreToDo(succ, target, i, ids)

\* A variant of the clamp that keeps the target as passed.
ClampNone(target, n) == target

\* Lines 283-284: the target is cut down to the number of identifiers.
Clamp(target, n) == IF target > n THEN n ELSE target

\* ------------------------------------------------------------ the driver
\* Line 267: BrainAPIClient() authenticates; a failure raises out of
\* submit_alpha_ids, the call stands outside both try blocks.
Authenticate ==
    /\ pc = "start"
    /\ \E ok \in BOOLEAN : pc' = IF ok THEN "load" ELSE "raised"
    /\ UNCHANGED <<fileVars, run, driverVars, callVars, toWrite, historyVars,
                   report>>

\* Lines 269-287: load the queue, clamp the target.
Load ==
    /\ pc = "load"
    /\ IF ~fileExists
       THEN /\ report' = [NoReport EXCEPT !.kind = "nofile"]
            /\ pc' = "done"
            /\ UNCHANGED <<alpha_ids, num_to_submit>>
       ELSE /\ alpha_ids' = ReadIds(fileLines)
            /\ IF alpha_ids' = <<>>
               THEN /\ report' = [NoReport EXCEPT !.kind = "empty"]
                    /\ pc' = "done"
                    /\ UNCHANGED num_to_submit
               ELSE /\ num_to_submit' = Clamp(num_to_submit, Len(alpha_ids'))
                    /\ pc' = "loop"
                    /\ UNCHANGED report
    /\ UNCHANGED <<fileVars, run, requested, idx, successful, failed,
                   callVars, toWrite, historyVars>>

\* Lines 291-295 and 95-97: the loop test; when it holds, submit_alpha is
\* called for alpha_ids[idx].
LoopHead ==
    /\ pc = "loop"
    /\ MoreToDo(successful, num_to_submit, idx, alpha_ids)
    /\ alpha_id' = alpha_ids[idx + 1]
    /\ CallOver
    /\ pc' = "post"
    /\ UNCHANGED <<fileVars, run, driverVars, toWrite, historyVars, report>>

\* Lines 291, 316-320: the loop ends, the final tally.
Tally ==
    /\ pc = "loop"
    /\ ~MoreToDo(successful, num_to_submit, idx, alpha_ids)
    /\ report' = [kind |-> IF Len(successful) < num_to_submit
                           THEN "warning" ELSE "ok",
                  s |-> Len(successful), f |-> 0, r |-> 0,
                  target |-> num_to_submit]
    /\ pc' = "done"
    /\ UNCHANGED <<fileVars, run, driverVars, callVars, toWrite, historyVars>>

\* Lines 322-323: an Exception raised inside the loop passes the handler of
\* KeyboardInterrupt, is logged by the outer handler, and the function ends.
ErrorReport == [NoReport EXCEPT !.kind = "error"]

\* ---------------------------------------------------------- submit_alpha
\* A variant of the verdict that retries a 403.
PostVerdictRetry403(status) ==
    IF status = 201 THEN "poll" ELSE IF status = 400 THEN "reject" ELSE "retry"

\* A variant of the verdict that polls after any status below 300.
PostVerdictPoll2xx(status) ==
    IF status < 300 THEN "poll"
    ELSE IF status \in {400, 403} THEN "reject" ELSE "retry"

\* Lines 102-109: what a submit response leads to.
PostVerdict(status) ==
    IF status = 201 THEN "poll"
    ELSE IF status \in {400, 403} THEN "reject" ELSE "retry"

\* A variant of the attempt budget with one attempt more.
HasNextAttemptExtra(a) == a + 1 <= MaxAttempts

\* Line 97: range(5) has another attempt after attempt a.
HasNextAttempt(a) == a + 1 < MaxAttempts

\* Lines 116-132: what a poll response leads to.
PollVerdict(status, interval) ==
    IF interval = 0
    THEN IF status = 200 THEN "success" ELSE "failure"
    ELSE "wait"

\* A variant of the wait that caps the interval.
WaitLengthCapped(interval) == IF interval > 5 THEN 5 ELSE interval

\* Line 132: sleep(retry).
WaitLength(interval) == interval

\* submit_alpha returns v at source line l.
Return(v, l) ==
    /\ ret' = v /\ retLine' = l
    /\ resolved' = resolved \cup {alpha_id}
    /\ pc' = "record"

\* An Exception leaves submit_alpha and the loop (lines 322-323).
Raise ==
    /\ report' = ErrorReport
    /\ pc' = "done"
    /\ UNCHANGED <<ret, retLine, resolved>>

\* Lines 98-109: one submit attempt.
Post ==
    /\ pc = "post"
    /\ nPost' = nPost + 1
    /\ posted' = posted \cup {alpha_id}
    /\ \/ /\ res' = Response("POST", 0, NoHeader, "unread")
          /\ Raise
          /\ UNCHANGED accepted
       \/ \E status \in PostStatuses :
            /\ res' = Response("POST", status, NoHeader, "unread")
            /\ accepted' = (accepted \/ status = 201)
            /\ CASE PostVerdict(status) = "poll" ->
                      /\ pc' = "get"
                      /\ UNCHANGED <<ret, retLine, resolved, report>>
                 [] PostVerdict(status) = "reject" ->
                      /\ Return("False", 106)
                      /\ UNCHANGED report
                 [] OTHER ->
                      /\ pc' = "backoff"
                      /\ UNCHANGED <<ret, retLine, resolved, report>>
    /\ UNCHANGED <<fileVars, run, driverVars, alpha_id, attempt, retry, nGet,
                   nBackoff, nRetryWait, lastSleep, toWrite, removed,
                   prevResolved, prevRemoved, prevDistinct, rmTrace,
                   candidates, filtered>>

\* Lines 108-109, 97 and 134: the pause after a status that is neither
\* accepted nor rejected, then the next attempt or the end of the budget.
Backoff ==
    /\ pc = "backoff"
    /\ lastSleep' = SubmitBackoff
    /\ nBackoff' = nBackoff + 1
    /\ attempt' = attempt + 1
    /\ IF HasNextAttempt(attempt)
       THEN /\ pc' = "post"
            /\ UNCHANGED <<ret, retLine, resolved>>
       ELSE Return("False", 134)
    /\ UNCHANGED <<fileVars, run, driverVars, alpha_id, retry, res, nPost,
                   nGet, nRetryWait, accepted, toWrite, posted, removed,
                   prevResolved, prevRemoved, prevDistinct, rmTrace,
                   candidates, filtered, report>>

\* Lines 113-130: one status query.  The transport may raise, float() raises
\* on a header that is no number, res.json() raises on a body that is no
\* JSON document.  Only MaxPolls answers of a call carry a nonzero interval.
Get ==
    /\ pc = "get"
    /\ nGet' = nGet + 1
    /\ \/ /\ res' = Response("GET", 0, NoHeader, "unread")
          /\ Raise
          /\ UNCHANGED retry
       \/ \E status \in GetStatuses, header \in RetryHeaders, body \in Bodies :
            /\ IF ~IsFloat(header)
               THEN /\ res' = Response("GET", status, header, "unread")
                    /\ Raise
                    /\ UNCHANGED retry
               ELSE /\ retry' = ParseFloat(header)
                    /\ res' = Response("GET", status, header,
                                       IF PollVerdict(status, retry') = "failure"
                                       THEN body ELSE "unread")
                    /\ CASE PollVerdict(status, retry') = "success" ->
                              Return("True", 119) /\ UNCHANGED report
                         [] PollVerdict(status, retry') = "failure" ->
                              IF body = "checks"
                              THEN Return("False", 130) /\ UNCHANGED report
                              ELSE Raise
                         [] OTHER ->
                              /\ nRetryWait < MaxPolls
                              /\ pc' = "retrywait"
                              /\ UNCHANGED <<ret, retLine, resolved, report>>
    /\ UNCHANGED <<fileVars, run, driverVars, alpha_id, attempt, nPost,
                   nBackoff, nRetryWait, lastSleep, accepted, toWrite, posted,
                   removed, prevResolved, prevRemoved, prevDistinct, rmTrace,
                   candidates, filtered>>

\* Line 132: wait as long as the server said, then poll again.
RetryWait ==
    /\ pc = "retrywait"
    /\ lastSleep' = WaitLength(retry)
    /\ nRetryWait' = nRetryWait + 1
    /\ pc' = "get"
    /\ UNCHANGED <<fileVars, run, driverVars, alpha_id, attempt, retry, res,
                   ret, retLine, nPost, nGet, nBackoff, accepted, toWrite,
                   historyVars, report>>

\* ------------------------------------------------- the driver, continued
\* Lines 295-300: the outcome goes to one of the two lists.
Record ==
    /\ pc = "record"
    /\ IF ret = "True"
       THEN successful' = Append(successful, alpha_id) /\ UNCHANGED failed
       ELSE failed' = Append(failed, alpha_id) /\ UNCHANGED successful
    /\ CallOver
    /\ pc' = "rm_open"
    /\ UNCHANGED <<fileVars, run, requested, num_to_submit, alpha_ids, idx,
                   alpha_id, toWrite, historyVars, report>>

\* A variant that rewrites every file that exists.
NeedsRewriteAlways(exists, lines, x) == exists

\* Lines 247 and 254: the file is rewritten when it exists and holds the
\* identifier.
NeedsRewrite(exists, lines, x) == exists /\ Contains(ReadIds(lines), x)


\* Lines 303 and 247-257: _remove_alpha_id_from_file reads the file and,
\* when the identifier is in it, opens the file for writing, which empties
\* it.
RemoveOpen ==
    /\ pc = "rm_open"
    /\ IF NeedsRewrite(fileExists, fileLines, alpha_id)
       THEN /\ toWrite' = RemoveFirst(ReadIds(fileLines), alpha_id)
            /\ fileExists' = TRUE /\ fileLines' = <<>>
            /\ pc' = "rm_write"
       ELSE /\ pc' = "advance"
            /\ UNCHANGED <<toWrite, fileExists, fileLines>>
    /\ UNCHANGED <<run, driverVars, callVars, historyVars, report>>

\* Lines 258-260: the remaining identifiers are written and the file closed.
RemoveWrite ==
    /\ pc = "rm_write"
    /\ fileLines' = FormatLines(toWrite)
    /\ toWrite' = <<>>
    /\ removed' = removed \cup {alpha_id}
    /\ pc' = "advance"
    /\ UNCHANGED <<fileExists, run, driverVars, callVars, posted, resolved,
                   prevResolved, prevRemoved, prevDistinct, rmTrace,
                   candidates, filtered, report>>

\* Lines 305-308: the index moves on; a pause follows when more is to do.
Advance ==
    /\ pc = "advance"
    /\ idx' = idx + 1
    /\ pc' = IF PauseNeeded(successful, num_to_submit, idx', alpha_ids)
             THEN "pause" ELSE "loop"
    /\ UNCHANGED <<fileVars, run, requested, num_to_submit, alpha_ids,
                   successful, failed, callVars, toWrite, historyVars, report>>

\* Line 309: sleep(10).
Pause ==
    /\ pc = "pause"
    /\ lastSleep' = BatchPause
    /\ pc' = "loop"
    /\ UNCHANGED <<fileVars, run, driverVars, alpha_id, attempt, retry, res,
                   ret, retLine, nPost, nGet, nBackoff, nRetryWait, accepted,
                   toWrite, historyVars, report>>

\* A variant in which the handler of Exception takes the interruption.
InterruptSwallowed ==
    /\ pc \in LoopPcs
    /\ report' = ErrorReport
    /\ CallOver
    /\ pc' = "done"
    /\ UNCHANGED <<fileVars, run, driverVars, alpha_id, toWrite, historyVars>>

\* Lines 311-314: KeyboardInterrupt inside the loop is reported and raised
\* again.  A file open for writing is closed as it is.
Interrupt ==
    /\ pc \in LoopPcs
    /\ report' = [kind |-> "interrupt", s |-> Len(successful),
                  f |-> Len(failed), r |-> Len(alpha_ids) - idx,
                  target |-> 0]
    /\ CallOver
    /\ pc' = "interrupted"
    /\ UNCHANGED <<fileVars, run, driverVars, alpha_id, toWrite, historyVars>>

\* The process is killed: nothing more runs, the file stays as it is.
Kill ==
    /\ pc \in LoopPcs \cup {"load"}
    /\ CallOver
    /\ pc' = "killed"
    /\ UNCHANGED <<fileVars, run, driverVars, alpha_id, toWrite, historyVars,
                   report>>

\* Line 344 or a new start of the program: submit_alpha_ids runs again on
\* the file the earlier run left.
Rerun ==
    /\ pc \in EndPcs
    /\ run < MaxRuns
    /\ run' = run + 1
    /\ pc' = "start"
    /\ requested' \in Targets
    /\ prevResolved' = prevResolved \cup resolved
    /\ prevRemoved' = prevRemoved \cup removed
    /\ prevDistinct' = (prevDistinct /\ IsDistinct(alpha_ids))
    /\ ResetLocals
    /\ UNCHANGED <<fileVars, rmTrace, candidates, filtered>>

Next ==
    \/ Authenticate \/ Load \/ LoopHead \/ Tally
    \/ Post \/ Backoff \/ Get \/ RetryWait
    \/ Record \/ RemoveOpen \/ RemoveWrite \/ Advance \/ Pause
    \/ Interrupt \/ Kill \/ Rerun

Spec == Init /\ [][Next]_vars

\* One call of submit_alpha on its own: the driver has loaded a queue of one
\* identifier and calls submit_alpha for it; the behaviour ends when the call
\* returns or raises.
InitCall ==
    /\ fileExists = TRUE
    /\ fileLines \in {<<l>> : l \in RawLines \ {<<"\n">>}}
    /\ pc = "post" /\ run = 1
    /\ requested \in Targets \ {0}
    /\ num_to_submit = 1
    /\ alpha_ids = ReadIds(fileLines) /\ idx = 0
    /\ successful = <<>> /\ failed = <<>>
    /\ alpha_id = alpha_ids[1] /\ attempt = 0 /\ retry = 0 /\ toWrite = <<>>
    /\ res = NoResponse /\ ret = "none" /\ retLine = 0
    /\ nPost = 0 /\ nGet = 0 /\ nBackoff = 0 /\ nRetryWait = 0
    /\ lastSleep = 0 /\ accepted = FALSE
    /\ posted = {} /\ resolved = {} /\ removed = {}
    /\ report = NoReport
    /\ prevResolved = {} /\ prevRemoved = {} /\ prevDistinct = TRUE
    /\ rmTrace = <<>> /\ candidates = NoInput /\ filtered = NotFiltered

NextCall == Post \/ Backoff \/ Get \/ RetryWait

SpecCall == InitCall /\ [][NextCall]_vars

\* ------------------------------------------------ the filter on its own
\* Lines 152-234: save_candidate_alpha_ids.  A missing input and one that
\* does not read as a table end it with a log line and nothing written;
\* otherwise the destination is opened for writing and gets one line for
\* each identifier that qualified.
Filter ==
    /\ pc = "filter"
    /\ IF candidates.exists /\ candidates.readable
       THEN /\ fileExists' = TRUE
            /\ fileLines' = FormatLines(ValidIds(candidates.rows))
            /\ filtered' = [ran |-> TRUE, wrote |-> TRUE,
                            ids |-> ValidIds(candidates.rows)]
       ELSE /\ UNCHANGED fileVars
            /\ filtered' = [ran |-> TRUE, wrote |-> FALSE, ids |-> <<>>]
    /\ pc' = "start"
    /\ UNCHANGED <<run, driverVars, callVars, toWrite, posted, resolved,
                   removed, prevResolved, prevRemoved, prevDistinct,
                   rmTrace, candidates, report>>

\* What the destination may hold from an earlier run.
StaleFiles ==
    {[exists |-> FALSE, lines |-> <<>>],
     [exists |-> TRUE, lines |-> <<<<"C", "\n">>>>]}

FilterInputs ==
    {NoInput, Unreadable}
    \cup {Input(TRUE, TRUE, rows) : rows \in SeqsUpTo(Rows, MaxRows) \ {<<>>}}

InitFilter ==
    /\ \E f \in StaleFiles : fileExists = f.exists /\ fileLines = f.lines
    /\ pc = "filter" /\ run = 1
    /\ requested = 0
    /\ FreshLocals
    /\ prevResolved = {} /\ prevRemoved = {} /\ prevDistinct = TRUE
    /\ rmTrace = <<>> /\ candidates \in FilterInputs /\ filtered = NotFiltered

NextFilter == Filter

SpecFilter == InitFilter /\ [][NextFilter]_vars

\* ------------------------------------------------- filter, then submit
\* Lines 341-344: choice 3 of main calls save_candidate_alpha_ids and then
\* submit_alpha_ids on the same file, whatever the filter did.
MainRows ==
    {Row(<<"A">>, TRUE, TRUE, AllPass),
     Row(<<" ", "B", " ">>, TRUE, TRUE, AllPass),
     Row(<<"A">>, TRUE, TRUE, WithResult("LOW_SHARPE", "FAIL"))}

MainInputs ==
    {NoInput, Unreadable}
    \cup {Input(TRUE, TRUE, rows) : rows \in SeqsUpTo(MainRows, MaxRows) \ {<<>>}}

InitMain ==
    /\ \E f \in StaleFiles : fileExists = f.exists /\ fileLines = f.lines
    /\ pc = "filter" /\ run = 1
    /\ requested \in Targets
    /\ FreshLocals
    /\ prevResolved = {} /\ prevRemoved = {} /\ prevDistinct = TRUE
    /\ rmTrace = <<>> /\ candidates \in MainInputs /\ filtered = NotFiltered

NextMain ==
    \/ Filter
    \/ Authenticate \/ Load \/ LoopHead \/ Tally
    \/ Post \/ Backoff \/ Get \/ RetryWait
    \/ Record \/ RemoveOpen \/ RemoveWrite \/ Advance \/ Pause

SpecMain == InitMain /\ [][NextMain]_vars

\* ---------------------------------------------- the removal on its own
\* _remove_alpha_id_from_file called on any file and any identifier, and
\* called again with the same identifier; rmTrace holds the file as it was
\* before the first call and after each call.
Snapshot == [exists |-> fileExists, lines |-> fileLines]

InitRemove ==
    /\ fileExists \in BOOLEAN
    /\ fileLines \in (IF fileExists THEN SeqsUpTo(RawLines, MaxLines) ELSE {<<>>})
    /\ pc = "rm_open" /\ run = 1
    /\ requested = 0 /\ num_to_submit = 0
    /\ alpha_ids = <<>> /\ idx = 0 /\ successful = <<>> /\ failed = <<>>
    /\ alpha_id \in Ids /\ attempt = 0 /\ retry = 0 /\ toWrite = <<>>
    /\ res = NoResponse /\ ret = "none" /\ retLine = 0
    /\ nPost = 0 /\ nGet = 0 /\ nBackoff = 0 /\ nRetryWait = 0
    /\ lastSleep = 0 /\ accepted = FALSE
    /\ posted = {} /\ resolved = {} /\ removed = {}
    /\ report = NoReport
    /\ prevResolved = {} /\ prevRemoved = {} /\ prevDistinct = TRUE
    /\ rmTrace = <<Snapshot>> /\ candidates = NoInput /\ filtered = NotFiltered

\* Lines 248, 259 and 262: the call is over; the second call follows the
\* first.
RemoveReturn ==
    /\ pc = "advance" /\ rmTrace # <<>>
    /\ rmTrace' = Append(rmTrace, Snapshot)
    /\ pc' = IF Len(rmTrace') < 3 THEN "rm_open" ELSE "done"
    /\ UNCHANGED <<fileVars, run, driverVars, callVars, toWrite, posted,
                   resolved, removed, prevResolved, prevRemoved,
                   prevDistinct, candidates, filtered, report>>

NextRemove == RemoveOpen \/ RemoveWrite \/ RemoveReturn

SpecRemove == InitRemove /\ [][NextRemove]_vars

\* ------------------------------------------------------------ the claims
\* alpha_ids[idx:] with the 0-based idx of the code.
From(ids, i) == SubSeq(ids, i + 1, Len(ids))
NormalExit == pc = "done" /\ report.kind \in {"warning", "ok"}
InCall == pc \in {"post", "backoff", "get", "retrywait"}

\* C1: in a run over a queue of distinct identifiers, at the head of the
\* loop and at normal exit the queue file holds exactly alpha_ids[idx:], in
\* order; once an identifier has been removed it holds them one per line.
QueueFileIsRemainder ==
    (pc = "loop" \/ NormalExit) /\ IsDistinct(alpha_ids) =>
        /\ fileExists
        /\ ReadIds(fileLines) = From(alpha_ids, idx)
        /\ idx > 0 => fileLines = FormatLines(From(alpha_ids, idx))

\* C1 witness: the driver is back at the head of its loop after two of
\* three distinct identifiers got their outcome.
QueueFileIsRemainderReached ==
    /\ pc = "loop" /\ idx = 2 /\ Len(alpha_ids) = 3 /\ IsDistinct(alpha_ids)
    /\ Len(successful) = 1 /\ Len(failed) = 1

\* C2: in every state of a driver run, every loaded identifier that has no
\* outcome yet is in the queue file.
PendingIdsStayInFile ==
    \A i \in 1..Len(alpha_ids) :
        alpha_ids[i] \notin resolved => Contains(ReadIds(fileLines), alpha_ids[i])

OutcomeIdAbsentAfterRewrite ==
    pc = "advance" => ~Contains(ReadIds(fileLines), alpha_id)

\* C4, amended: the rewrite comes before the pause and before any request
\* for another identifier, and after it the file holds exactly the loaded
\* identifiers that follow X, so X occurs in it only if X was loaded again
\* further down.
RewriteFollowsOutcome ==
    /\ pc = "advance" =>
          /\ alpha_id \in removed
          /\ fileLines = FormatLines(From(alpha_ids, idx + 1))
          /\ Contains(ReadIds(fileLines), alpha_id) <=>
                \E j \in (idx + 2)..Len(alpha_ids) : alpha_ids[j] = alpha_id
    /\ pc = "pause" \/ InCall => resolved \subseteq removed

\* C4 witness: the rewrite for X is done and X, loaded twice, is still in
\* the file.
RewriteFollowsOutcomeReached ==
    /\ pc = "advance" /\ alpha_id \in removed
    /\ Contains(ReadIds(fileLines), alpha_id)

\* C5: a call issues at most 5 POSTs; after 5 POSTs that each got a status
\* other than 201, 400 and 403 it returns False, with exactly 5 POSTs and no
\* GET.
AtMostFivePosts ==
    /\ nPost <= 5
    /\ nBackoff = 5 =>
          /\ pc = "record" /\ ret = "False" /\ retLine = 134
          /\ nPost = 5 /\ nGet = 0
    /\ nPost = 5 /\ res.req = "POST" /\ res.status \notin {0, 201, 400, 403}
          /\ nBackoff = 4 =>
          pc = "backoff" /\ nGet = 0

\* C5 witness: the call has returned after five POSTs without acceptance or
\* rejection.
AtMostFivePostsReached ==
    pc = "record" /\ retLine = 134 /\ nPost = 5 /\ nBackoff = 5

\* C6: a POST answered 400 or 403 ends the call at once with False: no GET,
\* no wait after it, and one request in all when it was the first attempt.
RejectionEndsCall ==
    res.req = "POST" /\ res.status \in {400, 403} =>
        /\ pc = "record" /\ ret = "False" /\ retLine = 106
        /\ nGet = 0 /\ nRetryWait = 0
        /\ nBackoff = nPost - 1
        /\ lastSleep = (IF nPost = 1 THEN 0 ELSE 3)
        /\ attempt = 0 => nPost + nGet = 1

\* C6 witness: 403 on the first attempt.
RejectionEndsCallReached ==
    pc = "record" /\ res.status = 403 /\ nPost = 1 /\ attempt = 0

\* C7: a GET is issued only after a POST of the same call got 201, and the
\* first GET comes right after that 201.
PollOnlyAfterAccept ==
    [][nGet' = nGet + 1 =>
          /\ accepted
          /\ nGet = 0 => res.req = "POST" /\ res.status = 201]_vars

\* C7 witness: the first GET of a call whose third POST was accepted.
PollOnlyAfterAcceptReached ==
    nGet = 1 /\ accepted /\ nPost = 3 /\ res.req = "GET"

\* The last poll answered with a wait interval of zero.
ResolvedPoll ==
    /\ res.req = "GET" /\ res.status # 0
    /\ IsFloat(res.retryAfter) /\ ParseFloat(res.retryAfter) = 0

\* C8: the call returns True exactly when a POST got 201 and a later poll
\* answered 200 with interval zero; a poll answered with interval zero and
\* another status ends the call with False.
SuccessIffResolved200 ==
    /\ ret = "True" <=> pc = "record" /\ accepted /\ ResolvedPoll /\ res.status = 200
    /\ ResolvedPoll /\ res.status # 200 =>
          pc = "record" /\ ret = "False" /\ retLine = 130

\* C9: a poll answered with a nonzero interval makes the call wait that
\* interval and poll again, whatever the status and however many polls there
\* were, without a new POST; 201, two such polls and a poll answered 200
\* with interval zero give True after 1 POST, 3 GETs and 2 waits.
WaitThenPollAgain ==
    /\ [](/\ pc = "retrywait" =>
                /\ res.req = "GET" /\ retry # 0
                /\ retry = ParseFloat(res.retryAfter)
          /\ pc = "record" /\ nPost = 1 /\ nRetryWait = 2 /\ ResolvedPoll
                /\ res.status = 200 =>
                ret = "True" /\ nGet = 3 /\ nBackoff = 0)
    /\ [][/\ nGet' = nGet + 1 /\ res'.status # 0 /\ IsFloat(res'.retryAfter)
                /\ ParseFloat(res'.retryAfter) # 0 => pc' = "retrywait"
          /\ pc = "retrywait" =>
                /\ pc' = "get" /\ lastSleep' = retry
                /\ nRetryWait' = nRetryWait + 1
                /\ nPost' = nPost /\ nGet' = nGet
          /\ pc = "get" => nGet' = nGet + 1 /\ nPost' = nPost]_vars

\* C9 witness: True after one POST, three GETs and two waits.
WaitThenPollAgainReached ==
    pc = "record" /\ ret = "True" /\ nPost = 1 /\ nGet = 3 /\ nRetryWait = 2

\* C10: a run that has loaded identifiers ends only with the target met or
\* every identifier processed, however the submissions failed.
FailureNeverAbortsBatch ==
    pc = "done" /\ alpha_ids # <<>> =>
        ~MoreToDo(successful, num_to_submit, idx, alpha_ids)

\* C11: the driver takes the loaded identifiers in order, each line once,
\* issues no request once the target is met, never has more successes than
\* the target, ends only with the target met or every identifier processed,
\* and leaves the identifiers after the stopping point in the file; for
\* A, B, C with target 2 and outcomes success, failure, success it ends with
\* successes A, C and an empty queue.
StopsAtTargetOrEnd ==
    /\ idx <= Len(alpha_ids)
    /\ Len(successful) <= num_to_submit /\ num_to_submit <= requested
    /\ InCall =>
          /\ Len(successful) < requested
          /\ alpha_id = alpha_ids[idx + 1]
          /\ Len(successful) + Len(failed) = idx
    /\ pc = "done" /\ alpha_ids # <<>> =>
          /\ Len(successful) = requested \/ idx = Len(alpha_ids)
          /\ Len(successful) + Len(failed) = idx
          /\ ReadIds(fileLines) = From(alpha_ids, idx)
    /\ NormalExit /\ alpha_ids = <<"A", "B", "C">> /\ requested = 2
          /\ failed = <<"B">> /\ Len(successful) = 2 =>
          successful = <<"A", "C">> /\ ReadIds(fileLines) = <<>>

\* C12: a pause of 10 comes before the first request of every submission
\* but the first, once between two submissions, and none comes after the
\* last submission.
PauseBetweenSubmissions ==
    [][/\ pc = "loop" /\ pc' = "post" => (lastSleep = 10 <=> idx > 0)
       /\ pc = "loop" /\ pc' = "done" => lastSleep = 0
       /\ lastSleep' = 10 =>
             /\ pc = "pause" /\ pc' = "loop" /\ lastSleep = 0
             /\ MoreToDo(successful, num_to_submit, idx, alpha_ids)
       /\ pc = "advance" /\ pc' = "pause" => idx' < Len(alpha_ids)
       /\ pc = "pause" => pc' \in {"loop", "interrupted", "killed"}]_vars

\* C12 witness: the pause before the third submission is over.
PauseBetweenSubmissionsReached ==
    pc = "loop" /\ lastSleep = 10 /\ idx = 2 /\ Len(alpha_ids) = 3

\* C13: KeyboardInterrupt anywhere in the loop is reported with the counts
\* of successes, failures and remaining identifiers and raised again; the
\* handler of Exception does not take it and no final tally follows.
InterruptReportedAndRaised ==
    /\ [](pc = "interrupted" =>
             report = [kind |-> "interrupt", s |-> Len(successful),
                       f |-> Len(failed), r |-> Len(alpha_ids) - idx,
                       target |-> 0])
    /\ [][/\ pc' = "done" => pc \in {"load", "loop", "post", "get"}
          /\ pc = "interrupted" => pc' = "start" /\ run' = run + 1]_vars

\* C13 witness: the interruption came inside the rewrite of the queue file,
\* after one success and one failure.
InterruptReportedAndRaisedReached ==
    /\ pc = "interrupted" /\ toWrite # <<>> /\ fileLines = <<>>
    /\ report.kind = "interrupt" /\ report.s = 1 /\ report.f = 1

\* C15, as claimed: the final report compares the successes with the target
\* as passed and warns whenever they are fewer.
TallyAgainstRequested ==
    NormalExit =>
        /\ report.target = requested
        /\ report.kind = "warning" <=> Len(successful) < requested

\* C15, amended: the final report compares the successes with the target
\* cut down to the number of loaded identifiers and warns whenever they are
\* fewer than that.
TallyAgainstClamped ==
    LET n == Len(alpha_ids)
        cut == IF requested < n THEN requested ELSE n
    IN  NormalExit =>
            /\ report.s = Len(successful)
            /\ report.target = cut
            /\ report.kind = "warning" <=> Len(successful) < cut

\* C15 witness: every identifier of a queue shorter than the target as
\* passed succeeded, and the run ended without a warning.
TallyAgainstClampedReached ==
    /\ NormalExit /\ requested > Len(alpha_ids)
    /\ Len(successful) = Len(alpha_ids) /\ report.kind = "ok"

\* C19: the counts reported on interruption add up to the number of loaded
\* identifiers, and the remaining count is the number of identifiers in the
\* queue file (queue of distinct identifiers).
InterruptCountsConsistent ==
    pc = "interrupted" /\ IsDistinct(alpha_ids) =>
        /\ report.s + report.f + report.r = Len(alpha_ids)
        /\ report.r = Len(ReadIds(fileLines))

\* C17: the submit phase of a call ends within 5 attempts, and once a poll
\* is answered with a wait interval of zero the call has returned True or
\* False.
CallEndsWithOutcome ==
    /\ nPost <= 5
    /\ ResolvedPoll => pc = "record" /\ ret \in {"True", "False"}

\* C18: a POST answered with a status other than 201, 400 and 403 is
\* followed by a wait of 3 and then by another POST; every wait of 3 is
\* followed by a retry.
BackoffThenRetry ==
    [][/\ pc = "post" /\ res'.req = "POST"
             /\ res'.status \notin {0, 201, 400, 403} => pc' = "backoff"
       /\ pc = "backoff" =>
             lastSleep' = 3 /\ nBackoff' = nBackoff + 1 /\ pc' = "post"]_vars

\* C14: removal is idempotent.  Removing an identifier that is not in the
\* queue, or removing from a missing file, never touches the file: it is
\* not created, not opened for writing and not written, so it stays what it
\* was before the call.  Removing an identifier of a queue of distinct
\* identifiers leaves the other identifiers in their order, and removing it
\* a second time leaves the file exactly as the first removal left it.
RemovalIdempotent ==
    rmTrace # <<>> =>
        LET before == rmTrace[1]
            ids    == ReadIds(before.lines)
        IN  /\ ~before.exists \/ ~Contains(ids, alpha_id) =>
                /\ Snapshot = before /\ removed = {} /\ pc # "rm_write"
                /\ \A i \in 1..Len(rmTrace) : rmTrace[i] = before
            /\ before.exists /\ IsDistinct(ids) /\ Len(rmTrace) >= 2 =>
                /\ rmTrace[2].exists
                /\ ReadIds(rmTrace[2].lines)
                       = SelectSeq(ids, LAMBDA x : x # alpha_id)
                /\ Snapshot = rmTrace[2]
                /\ Len(rmTrace) = 3 => rmTrace[3] = rmTrace[2]

RemovalIdempotentReached ==
    /\ Len(rmTrace) = 3 /\ pc = "done"
    /\ ReadIds(rmTrace[1].lines) = <<"A", "B", "C">> /\ alpha_id = "B"
    /\ rmTrace[2].lines = FormatLines(<<"A", "C">>)
    /\ rmTrace[3] = rmTrace[2] /\ removed = {"B"}

\* C16: the filter writes the identifier of a record exactly when the
\* report of the record gives the result PASS for each of LOW_SHARPE,
\* LOW_FITNESS, LOW_TURNOVER, HIGH_TURNOVER, CONCENTRATED_WEIGHT and
\* LOW_SUB_UNIVERSE_SHARPE.  A FAIL, a WARNING or no entry for one of the
\* six keeps the record out, an entry for another gate changes nothing, and
\* the output has one line for each record kept, in the order of the
\* records.
FilterKeepsExactlyAllPass ==
    filtered.wrote =>
        LET rows == candidates.rows
            six  == {"LOW_SHARPE", "LOW_FITNESS", "LOW_TURNOVER",
                     "HIGH_TURNOVER", "CONCENTRATED_WEIGHT",
                     "LOW_SUB_UNIVERSE_SHARPE"}
            Says(i, g, v) ==
                \E k \in 1..Len(rows[i].checks) :
                    rows[i].checks[k] = [name |-> g, result |-> v]
            Kept(i) ==
                /\ rows[i].marker /\ rows[i].literal
                /\ \A g \in six : Says(i, g, "PASS")
            K == {i \in 1..Len(rows) : Kept(i)}
            Place(i) == Cardinality({k \in K : k <= i})
            Id(i) == SelectSeq(rows[i].first, LAMBDA t : t \in Ids)
        IN  /\ fileExists /\ Len(fileLines) = Cardinality(K)
            /\ \A i \in K : fileLines[Place(i)] = Id(i) \o <<"\n">>

FilterKeepsExactlyAllPassReached ==
    /\ filtered.wrote /\ Len(candidates.rows) = 2
    /\ candidates.rows[1].checks = Append(AllPass, Item("UNITS", "WARNING"))
    /\ candidates.rows[1].first = <<" ", "B", " ">>
    /\ candidates.rows[2] = Row(<<"A">>, TRUE, TRUE, AllPass)
    /\ fileLines = <<<<"B", "\n">>, <<"A", "\n">>>>

\* C20: in filter-then-submit, an identifier is sent in a submit request
\* only if the filter step of this run wrote it to the queue file; when
\* the filter step wrote nothing, no submit request is sent.
SubmitsOnlyWhatFilterWrote ==
    filtered.ran =>
        /\ posted \subseteq Range(filtered.ids)
        /\ ~filtered.wrote => nPost = 0 /\ posted = {}

====
